---- MODULE Spec2Model ----
(***************************************************************************)
(* The notebook "Bad passwords and the NIST guidelines" as a state machine. *)
(*                                                                         *)
(* The state is the Jupyter kernel after the first cell has loaded          *)
(* datasets/users.csv into the DataFrame `users`: the DataFrame (a mapping  *)
(* from column name to a column of one value per row), the two reference    *)
(* Series `common_passwords` and `words`, the names the kernel has defined, *)
(* the counts and rows the cells have printed (`stdout`, the latest output  *)
(* of each print; the users.head() tables are left out), and the files      *)
(* under datasets/.                                                         *)
(* Every later code cell is one action.  A kernel runs cells in whatever    *)
(* order they are submitted and may run a cell again; a cell whose inputs   *)
(* do not exist yet raises (KeyError / NameError) before it assigns         *)
(* anything, which is the action's guard.                                   *)
(*                                                                         *)
(* A string is a sequence of one-character strings.                         *)
(***************************************************************************)
EXTENDS Integers, Sequences, FiniteSets, TLC

VARIABLES datasets, users, common_passwords, words, kernel, stdout

vars == <<datasets, users, common_passwords, words, kernel, stdout>>

(***************************************************************************)
(* Characters                                                              *)
(***************************************************************************)
NL == "\n"

LowerCase == {"a", "b", "c"}
UpperCase == {"A", "B", "C"}
Digit == {"1", "2", "3"}

\* str.lower() on one character
lower_char(c) ==
  CASE c = "A" -> "a"
    [] c = "B" -> "b"
    [] c = "C" -> "c"
    [] OTHER -> c

\* pandas .str.lower(): every character lowercased, nothing trimmed
str_lower(s) == [i \in 1..Len(s) |-> lower_char(s[i])]

\* pandas .str.len(): the number of characters
str_len(s) == Len(s)

\* the regex class \w: letters, digits and the underscore
IsWordChar(c) == c \in LowerCase \cup UpperCase \cup Digit \cup {"_"}

\* the regex atom . (without DOTALL): any character except a newline
IsDot(c) == c # NL

\* a missing value of a pandas object column
NaN == <<"NaN">>

\* elementwise == of two object columns: a missing value equals nothing
series_eq(x, y) == x # NaN /\ y # NaN /\ x = y

(***************************************************************************)
(* Policy literals of the notebook                                         *)
(***************************************************************************)
\* users['length'] < 8
min_length == 8
\* the quantifier {3,} of (.)\1{3,}
min_backrefs == 3

(***************************************************************************)
(* The rules, one value at a time                                          *)
(***************************************************************************)
\* users['length'] < 8
too_short_inclusive(length) == length <= min_length
too_short(length) == length < min_length

\* Series.isin(values): exact membership among the values of the Series
isin(x, values) == \E i \in 1..Len(values) : values[i] = x

\* users['password'].isin(common_passwords): the password as written
common_password_lowered(password, passwords) == isin(str_lower(password), passwords)
common_password(password, passwords) == isin(password, passwords)

\* users['password'].str.lower().isin(words)
common_word_as_written(password, wordlist) == isin(password, wordlist)
common_word(password, wordlist) == isin(str_lower(password), wordlist)

\* the number of word characters s starts with
RECURSIVE WordPrefixLen(_)
WordPrefixLen(s) ==
  IF s = <<>> \/ ~IsWordChar(Head(s)) THEN 0 ELSE 1 + WordPrefixLen(Tail(s))

\* the regex assertion $ at position p (the characters before p consumed):
\* the end of the string, or just before a newline that ends the string
AtDollar(s, p) == p = Len(s) \/ (p = Len(s) - 1 /\ s[Len(s)] = NL)

\* str.extract(r'^(\w+)\.'): the greedy run of word characters at the start,
\* when it is not empty and a dot follows it; no match gives NaN
extract_first_name_no_dot(user_name) ==
  LET k == WordPrefixLen(user_name)
  IN  IF k >= 1 THEN SubSeq(user_name, 1, k) ELSE NaN
extract_first_name(user_name) ==
  LET k == WordPrefixLen(user_name)
  IN  IF k >= 1 /\ k < Len(user_name) /\ user_name[k + 1] = "."
      THEN SubSeq(user_name, 1, k)
      ELSE NaN

\* the dots of user_name at which \.(\w+$) matches: a dot, then one or more
\* word characters (greedy), then $
LastNameMatches(user_name) ==
  { i \in 1..Len(user_name) :
      /\ user_name[i] = "."
      /\ LET k == WordPrefixLen(SubSeq(user_name, i + 1, Len(user_name)))
         IN  k >= 1 /\ AtDollar(user_name, i + k) }

Min(S) == CHOOSE x \in S : \A y \in S : x <= y

\* str.extract(r'\.(\w+$)'): the group of the leftmost match; none gives NaN
extract_last_name_first_dot(user_name) ==
  LET D == { i \in 1..Len(user_name) : user_name[i] = "." }
  IN  IF D = {} \/ Min(D) = Len(user_name) THEN NaN
      ELSE SubSeq(user_name, Min(D) + 1, Len(user_name))
extract_last_name(user_name) ==
  LET M == LastNameMatches(user_name)
  IN  IF M = {} THEN NaN
      ELSE LET i == Min(M)
               k == WordPrefixLen(SubSeq(user_name, i + 1, Len(user_name)))
           IN  SubSeq(user_name, i + 1, i + k)

\* criterion1 | criterion2: the lowercased password against the names as
\* they were extracted
uses_name(password, first_name, last_name) ==
  \/ series_eq(str_lower(password), first_name)
  \/ series_eq(str_lower(password), last_name)

\* str.contains(r'(.)\1{3,}'): somewhere a character that . matches is
\* followed by at least three copies of itself
too_many_repeats(password) ==
  \E i \in 1..Len(password) :
    /\ IsDot(password[i])
    /\ i + min_backrefs <= Len(password)
    /\ \A j \in 1..min_backrefs : password[i + j] = password[i]

\* too_short | common_password | common_word | uses_name | too_many_repeats,
\* each operand being (column == True)
bad_password_four(f1, f2, f3, f4, f5) ==
  (f1 = TRUE) \/ (f2 = TRUE) \/ (f3 = TRUE) \/ (f4 = TRUE)
bad_password(f1, f2, f3, f4, f5) ==
  (f1 = TRUE) \/ (f2 = TRUE) \/ (f3 = TRUE) \/ (f4 = TRUE) \/ (f5 = TRUE)

(***************************************************************************)
(* pandas plumbing                                                         *)
(***************************************************************************)
\* pd.read_csv(path, header=None, squeeze=True) of a one-column text file:
\* one value per line, in file order, exactly as written (nothing is
\* trimmed, lowercased or de-duplicated); blank lines are skipped
read_csv_lowered(lines) == [i \in 1..Len(lines) |-> str_lower(lines[i])]
read_csv(lines) == SelectSeq(lines, LAMBDA l : l # <<>>)

\* the builtin sum over a column of booleans: 0 + True + False + ... counts
\* the True values; the sum of no values is 0
py_sum_rows(col) == Len(col)
RECURSIVE py_sum(_)
py_sum(col) ==
  IF col = <<>> THEN 0 ELSE (IF Head(col) = TRUE THEN 1 ELSE 0) + py_sum(Tail(col))

\* users[col == True]: the rows of the mask, in the order of the table
RECURSIVE select_true(_, _)
select_true(col, i) ==
  IF i > Len(col) THEN <<>>
  ELSE (IF col[i] = TRUE THEN <<i>> ELSE <<>>) \o select_true(col, i + 1)

\* the number of rows of the DataFrame
NRows == Len(users["user_name"])
Rows == 1..NRows
HasCol(c) == c \in DOMAIN users

\* users[c] = col: the column is added, or replaced when it exists; the
\* values keep the row they were computed for
SetCol_reversed(df, c, col) ==
  [x \in DOMAIN df \cup {c} |->
     IF x = c THEN [i \in 1..Len(col) |-> col[Len(col) + 1 - i]] ELSE df[x]]
SetCol(df, c, col) ==
  [x \in DOMAIN df \cup {c} |-> IF x = c THEN col ELSE df[x]]

\* print(value): the latest output of the print named key
print_to(out, key, value) ==
  [x \in DOMAIN out \cup {key} |-> IF x = key THEN value ELSE out[x]]

(***************************************************************************)
(* The inputs: the files under datasets/                                   *)
(***************************************************************************)
\* the longest enumerated password, the most lines of an enumerated
\* reference file, the most rows of an enumerated users.csv
MaxLen == 4
MaxLines == 2
MaxUsers == 2

\* all strings over the alphabet A of at most n characters
Strs(A, n) == UNION { [1..k -> A] : k \in 0..n }

PadDigits == <<"1", "2", "3">>
\* s when it has n characters or more, else s followed by 1231231... up to
\* n characters (a tail without a repeated character)
PadTo(s, n) ==
  IF Len(s) >= n THEN s
  ELSE s \o [i \in 1..(n - Len(s)) |-> PadDigits[((i - 1) % 3) + 1]]

upper_char(c) ==
  CASE c = "a" -> "A"
    [] c = "b" -> "B"
    [] c = "c" -> "C"
    [] OTHER -> c
str_upper(s) == [i \in 1..Len(s) |-> upper_char(s[i])]

BasePasswords == << <<"a", "b">>, <<"a", "a", "a", "a">>, <<"A", "b", "1">> >>
BaseWords == << <<"a", "b">>, <<"c", "a">> >>
BaseUser == <<"a", "b", ".", "b", "a">>

\* passwords for the length and repetition rules: every short string over
\* a letter, its capital, another letter and the newline; and each of them
\* padded to one character less than the minimum length and to the minimum
RepeatChars == {"a", "A", "b", NL}
RepeatPasswords ==
  LET cores == Strs(RepeatChars, MaxLen)
  IN  cores \cup { PadTo(s, min_length - 1) : s \in cores }
            \cup { PadTo(s, min_length) : s \in cores }

\* user names: well formed, more than one dot, no dot, an empty side,
\* capitals, a character that is not a word character, a trailing newline
UserNames ==
  { <<"a", "b", ".", "b", "a">>,
    <<"a", ".", "b", ".", "c">>,
    <<"a", "b">>,
    <<".", "a", "b">>,
    <<"a", "b", ".">>,
    <<"A", "b", ".", "b", "A">>,
    <<"a", " ", "b", ".", "c">>,
    <<"a", "b", ".", "c", NL>>,
    <<"a", ".", ".", "b">> }

\* passwords for the name rule: every piece of the user name, as written,
\* in capitals and in small letters
Pieces(s) ==
  { SubSeq(s, i, j) : i \in 1..(Len(s) + 1), j \in 0..Len(s) }
NamePasswords(user_name) ==
  LET P == Pieces(user_name)
  IN  P \cup { str_upper(p) : p \in P } \cup { str_lower(p) : p \in P }

\* lines of a reference file, and the files of at most MaxLines lines
ListLines ==
  { <<"a", "b">>, <<"A", "b">>, <<" ", "a", "b">>, <<"b", "a">> }
ListFiles == UNION { [1..k -> ListLines] : k \in 1..MaxLines }
ListPasswords ==
  { <<"a", "b">>, <<"A", "B">>, <<"A", "b">>, <<" ", "a", "b">>,
    <<"b", "a">>, <<"a", "b", "1">>, <<"a", "b", "1", "2", "3", "1", "2", "3">> }

\* rows of users.csv for the tables of several rows
Credentials ==
  { << <<"a", "b", ".", "b", "a">>, <<"b", "a">> >>,
    << <<"b", "c">>, <<"c", "a", "b", "c", "a", "b", "c", "a">> >>,
    << <<"b", ".", "c">>, <<"a", "b">> >>,
    << <<"a", ".", "b", ".", "c">>, <<"b", "b", "b", "b", "c", "a", "b", "c">> >>,
    << <<"c", ".", "a">>, <<"A", "B">> >>,
    << <<"c", ".", "b">>, <<"a", "b", "c", "a", "b", "c", "a">> >> }

Dataset(rows, pwlines, wordlines) ==
  [users_csv |-> rows, passwords_txt |-> pwlines, words_txt |-> wordlines]

Inputs ==
  { Dataset(<< <<BaseUser, p>> >>, BasePasswords, BaseWords) :
      p \in RepeatPasswords }
  \cup UNION { { Dataset(<< <<u, p>> >>, BasePasswords, BaseWords) :
                   p \in NamePasswords(u) } : u \in UserNames }
  \cup UNION { { Dataset(<< <<BaseUser, p>> >>, f, f),
                 Dataset(<< <<BaseUser, p>> >>, f, BaseWords),
                 Dataset(<< <<BaseUser, p>> >>, BasePasswords, f) } :
               p \in ListPasswords, f \in ListFiles }
  \cup { Dataset(t, BasePasswords, BaseWords) :
           t \in UNION { [1..n -> Credentials] : n \in 0..MaxUsers } }

(***************************************************************************)
(* The notebook                                                            *)
(***************************************************************************)
\* users = pd.read_csv('datasets/users.csv'): one row per line, in file order
Init ==
  /\ datasets \in Inputs
  /\ users = [c \in {"user_name", "password"} |->
                [i \in 1..Len(datasets.users_csv) |->
                   datasets.users_csv[i][IF c = "user_name" THEN 1 ELSE 2]]]
  /\ common_passwords = <<>>
  /\ words = <<>>
  /\ kernel = {}
  /\ stdout = [x \in {"len(users)"} |-> Len(datasets.users_csv)]

\* cell 2: the lengths of the passwords and the too_short flag
TooShortCell ==
  /\ LET length == [i \in Rows |-> str_len(users["password"][i])]
     IN  users' = SetCol(SetCol(users, "length", length), "too_short",
                         [i \in Rows |-> too_short(length[i])])
  /\ stdout' = print_to(stdout, "sum(too_short)", py_sum(users'["too_short"]))
  /\ UNCHANGED <<datasets, common_passwords, words, kernel>>

\* cell 3: the list of common passwords is read
ReadCommonPasswordsCell ==
  /\ common_passwords' = read_csv(datasets.passwords_txt)
  /\ kernel' = kernel \cup {"common_passwords"}
  /\ UNCHANGED <<datasets, users, words, stdout>>

\* cell 4 also flagging a password that another row of the table has
CommonPasswordCell_with_other_rows ==
  /\ "common_passwords" \in kernel
  /\ users' = SetCol(users, "common_password",
       [i \in Rows |->
          \/ common_password(users["password"][i], common_passwords)
          \/ \E j \in Rows \ {i} : users["password"][j] = users["password"][i]])
  /\ stdout' = print_to(stdout, "sum(common_password)",
                      py_sum(users'["common_password"]))
  /\ UNCHANGED <<datasets, common_passwords, words, kernel>>
\* cell 4: the common_password flag
CommonPasswordCell ==
  /\ "common_passwords" \in kernel
  /\ users' = SetCol(users, "common_password",
       [i \in Rows |-> common_password(users["password"][i], common_passwords)])
  /\ stdout' = print_to(stdout, "sum(common_password)",
                      py_sum(users'["common_password"]))
  /\ UNCHANGED <<datasets, common_passwords, words, kernel>>

\* cell 5 lowercasing the password column itself before the lookup
CommonWordCell_lowering_in_place ==
  /\ words' = read_csv(datasets.words_txt)
  /\ kernel' = kernel \cup {"words"}
  /\ LET lowered == SetCol(users, "password",
                           [i \in Rows |-> str_lower(users["password"][i])])
     IN  users' = SetCol(lowered, "common_word",
           [i \in Rows |-> isin(lowered["password"][i], words')])
  /\ stdout' = print_to(stdout, "sum(common_word)", py_sum(users'["common_word"]))
  /\ UNCHANGED <<datasets, common_passwords>>
\* cell 5: the list of common words is read, then the common_word flag
CommonWordCell ==
  /\ words' = read_csv(datasets.words_txt)
  /\ kernel' = kernel \cup {"words"}
  /\ users' = SetCol(users, "common_word",
       [i \in Rows |-> common_word(users["password"][i], words')])
  /\ stdout' = print_to(stdout, "sum(common_word)", py_sum(users'["common_word"]))
  /\ UNCHANGED <<datasets, common_passwords>>

\* cell 6 keeping the extracted first name in the user_name column itself,
\* so that a second run extracts from what the first run left
UsesNameCell_renaming ==
  /\ LET first_name == [i \in Rows |-> extract_first_name(users["user_name"][i])]
         last_name == [i \in Rows |-> extract_last_name(users["user_name"][i])]
     IN  users' = SetCol(SetCol(SetCol(SetCol(users, "first_name", first_name),
                                       "last_name", last_name),
                                "uses_name",
                                [i \in Rows |-> uses_name(users["password"][i],
                                                          first_name[i], last_name[i])]),
                         "user_name", first_name)
  /\ stdout' = print_to(stdout, "sum(uses_name)", py_sum(users'["uses_name"]))
  /\ UNCHANGED <<datasets, common_passwords, words, kernel>>
\* cell 6: the first_name and last_name columns, then the uses_name flag
UsesNameCell ==
  /\ LET first_name == [i \in Rows |-> extract_first_name(users["user_name"][i])]
         last_name == [i \in Rows |-> extract_last_name(users["user_name"][i])]
     IN  users' = SetCol(SetCol(SetCol(users, "first_name", first_name),
                                "last_name", last_name),
                         "uses_name",
                         [i \in Rows |-> uses_name(users["password"][i],
                                                   first_name[i], last_name[i])])
  /\ stdout' = print_to(stdout, "sum(uses_name)", py_sum(users'["uses_name"]))
  /\ UNCHANGED <<datasets, common_passwords, words, kernel>>

\* cell 7 computing its flag only for the rows that are not too short yet,
\* the other rows being left without a value
TooManyRepeatsCell_unless_too_short ==
  /\ HasCol("too_short")
  /\ users' = SetCol(users, "too_many_repeats",
       [i \in { r \in Rows : ~users["too_short"][r] } |->
          too_many_repeats(users["password"][i])])
  /\ UNCHANGED <<datasets, common_passwords, words, kernel, stdout>>
\* cell 7 not looking for repeats in the rows that cell 2 has flagged before
TooManyRepeatsCell_after_too_short ==
  /\ users' = SetCol(users, "too_many_repeats",
       [i \in Rows |->
          IF HasCol("too_short") /\ users["too_short"][i] THEN FALSE
          ELSE too_many_repeats(users["password"][i])])
  /\ stdout' = print_to(stdout, "users[too_many_repeats]",
                      select_true(users'["too_many_repeats"], 1))
  /\ UNCHANGED <<datasets, common_passwords, words, kernel>>
\* cell 7: the too_many_repeats flag; the rows that have it are printed
TooManyRepeatsCell ==
  /\ users' = SetCol(users, "too_many_repeats",
       [i \in Rows |-> too_many_repeats(users["password"][i])])
  /\ stdout' = print_to(stdout, "users[too_many_repeats]",
                      select_true(users'["too_many_repeats"], 1))
  /\ UNCHANGED <<datasets, common_passwords, words, kernel>>

FlagColumns ==
  {"too_short", "common_password", "common_word", "uses_name", "too_many_repeats"}

\* cell 8: the five flag columns are read into five variables of the kernel,
\* then the bad_password column is written and its count printed
BadPasswordCell ==
  /\ FlagColumns \subseteq DOMAIN users
  /\ users' = SetCol(users, "bad_password",
       [i \in Rows |-> bad_password(users["too_short"][i],
                                    users["common_password"][i],
                                    users["common_word"][i],
                                    users["uses_name"][i],
                                    users["too_many_repeats"][i])])
  /\ kernel' = kernel \cup FlagColumns
  /\ stdout' = print_to(stdout, "sum(bad_password)", py_sum(users'["bad_password"]))
  /\ UNCHANGED <<datasets, common_passwords, words>>

Next ==
  \/ TooShortCell
  \/ ReadCommonPasswordsCell
  \/ CommonPasswordCell
  \/ CommonWordCell
  \/ UsesNameCell
  \/ TooManyRepeatsCell
  \/ BadPasswordCell

Spec == Init /\ [][Next]_vars

(***************************************************************************)
(* Properties                                                              *)
(***************************************************************************)
Password(i) == users["password"][i]
UserName(i) == users["user_name"][i]
Lines(f) == { f[k] : k \in 1..Len(f) }
Max(S) == CHOOSE x \in S : \A y \in S : y <= x

\* C1: once the bad_password column exists, a row's bad_password is true
\* exactly when at least one of its five flags is true, and false exactly
\* when all five are false.
BadIsOrOfFlags ==
  HasCol("bad_password") =>
    \A i \in Rows :
      /\ users["bad_password"][i] \in BOOLEAN
      /\ users["bad_password"][i] <=> (\E c \in FlagColumns : users[c][i] = TRUE)
      /\ ~users["bad_password"][i] <=> (\A c \in FlagColumns : users[c][i] = FALSE)

\* a table with a row that only the repetition rule flags (so it is bad)
\* and a row that no rule flags (so it is not)
BadIsOrOfFlagsWitness ==
  /\ HasCol("bad_password")
  /\ \E i \in Rows :
       /\ users["bad_password"][i]
       /\ users["too_many_repeats"][i]
       /\ \A c \in FlagColumns \ {"too_many_repeats"} : ~users[c][i]
  /\ \E j \in Rows :
       /\ ~users["bad_password"][j]
       /\ \A c \in FlagColumns : ~users[c][j]

\* C2: too_short is true exactly for the passwords of fewer than 8
\* characters: one of 7 characters is flagged, one of 8 is not.
TooShortIffBelowMin ==
  HasCol("too_short") =>
    \A i \in Rows :
      /\ Len(Password(i)) <= 7 => users["too_short"][i] = TRUE
      /\ Len(Password(i)) >= 8 => users["too_short"][i] = FALSE

\* a table with a flagged password of 7 characters and an unflagged one of 8
TooShortIffBelowMinWitness ==
  /\ HasCol("too_short")
  /\ \E i, j \in Rows :
       /\ Len(Password(i)) = 7 /\ users["too_short"][i]
       /\ Len(Password(j)) = 8 /\ ~users["too_short"][j]

\* C3, as claimed: every password whose lowercase form is an entry of the
\* list of common passwords is flagged common_password.
BlacklistCaseInsensitive ==
  HasCol("common_password") =>
    \A i \in Rows :
      str_lower(Password(i)) \in Lines(common_passwords)
        => users["common_password"][i] = TRUE

\* C3, amended: common_password is true exactly when the password as it is
\* written, capitals included, is a line of the list of common passwords.
BlacklistExactAsWritten ==
  HasCol("common_password") =>
    \A i \in Rows :
      users["common_password"][i] =
        (\E k \in 1..Len(datasets.passwords_txt) :
           /\ Len(datasets.passwords_txt[k]) = Len(Password(i))
           /\ \A j \in 1..Len(Password(i)) :
                datasets.passwords_txt[k][j] = Password(i)[j])

\* the list holds "ab", the password is "AB", and it is not flagged
BlacklistExactAsWrittenWitness ==
  /\ HasCol("common_password")
  /\ \E i \in Rows :
       /\ Password(i) = <<"A", "B">>
       /\ <<"a", "b">> \in Lines(datasets.passwords_txt)
       /\ ~users["common_password"][i]

\* C4: common_word is true exactly when the whole password, lowercased,
\* is a line of the word list; a password that only contains a word is
\* not flagged.
DictionaryLowercasedExact ==
  HasCol("common_word") =>
    \A i \in Rows :
      users["common_word"][i] =
        (\E k \in 1..Len(datasets.words_txt) :
           /\ Len(datasets.words_txt[k]) = Len(Password(i))
           /\ \A j \in 1..Len(Password(i)) :
                datasets.words_txt[k][j] = lower_char(Password(i)[j]))

\* the word list holds "ab"; the password "AB" is flagged and a password
\* that starts with "ab" and goes on is not
DictionaryLowercasedExactWitness ==
  /\ HasCol("common_word")
  /\ <<"a", "b">> \in Lines(datasets.words_txt)
  /\ \E i, j \in Rows :
       /\ Password(i) = <<"A", "B">> /\ users["common_word"][i]
       /\ Len(Password(j)) > 2 /\ SubSeq(Password(j), 1, 2) = <<"a", "b">>
       /\ ~users["common_word"][j]

IsSpace(c) == c \in {" ", NL}
RECURSIVE LStrip(_)
LStrip(s) == IF s # <<>> /\ IsSpace(Head(s)) THEN LStrip(Tail(s)) ELSE s
RECURSIVE RStrip(_)
RStrip(s) ==
  IF s # <<>> /\ IsSpace(s[Len(s)]) THEN RStrip(SubSeq(s, 1, Len(s) - 1)) ELSE s
\* a raw line trimmed and lowercased
Normalized(line) == str_lower(RStrip(LStrip(line)))

\* C5, as claimed: a password equal to the trimmed, lowercased form of a raw
\* line of a reference file is matched by that list.
ReferenceSetNormalized ==
  \A i \in Rows :
    /\ HasCol("common_password") =>
         \A k \in 1..Len(datasets.passwords_txt) :
           Password(i) = Normalized(datasets.passwords_txt[k])
             => users["common_password"][i] = TRUE
    /\ HasCol("common_word") =>
         \A k \in 1..Len(datasets.words_txt) :
           Password(i) = Normalized(datasets.words_txt[k])
             => users["common_word"][i] = TRUE

\* C5, amended: a reference list is the lines of its file exactly as they
\* are written, and a flag depends only on which lines the file holds: any
\* file with the same lines in another order or number gives the same flag.
ReferenceSetAsWritten ==
  /\ "common_passwords" \in kernel => common_passwords = datasets.passwords_txt
  /\ "words" \in kernel => words = datasets.words_txt
  /\ \A i \in Rows :
       /\ HasCol("common_password") =>
            \A g \in ListFiles :
              Lines(g) = Lines(datasets.passwords_txt) =>
                users["common_password"][i] = common_password(Password(i), read_csv(g))
       /\ HasCol("common_word") =>
            \A g \in ListFiles :
              Lines(g) = Lines(datasets.words_txt) =>
                users["common_word"][i] = common_word(Password(i), read_csv(g))

\* both files hold the line "Ab" twice, the password is "ab", and neither
\* list matches it
ReferenceSetAsWrittenWitness ==
  /\ HasCol("common_password") /\ HasCol("common_word")
  /\ datasets.passwords_txt = << <<"A", "b">>, <<"A", "b">> >>
  /\ datasets.words_txt = << <<"A", "b">>, <<"A", "b">> >>
  /\ \E i \in Rows :
       /\ Password(i) = <<"a", "b">>
       /\ ~users["common_password"][i]
       /\ ~users["common_word"][i]

\* C6, as claimed: uses_name is true exactly when the lowercased password
\* equals the lowercased first name or the lowercased last name, a missing
\* name matching nothing.
UsesNameCaseInsensitive ==
  HasCol("uses_name") =>
    \A i \in Rows :
      users["uses_name"][i] =
        (\/ /\ users["first_name"][i] # NaN
            /\ str_lower(Password(i)) = str_lower(users["first_name"][i])
         \/ /\ users["last_name"][i] # NaN
            /\ str_lower(Password(i)) = str_lower(users["last_name"][i]))

Dots(u) == { i \in 1..Len(u) : u[i] = "." }
BeforeFirstDot(u) == SubSeq(u, 1, Min(Dots(u)) - 1)
AfterFirstDot(u) == SubSeq(u, Min(Dots(u)) + 1, Len(u))
AfterLastDot(u) == SubSeq(u, Max(Dots(u)) + 1, Len(u))
AllWordChars(s) == \A i \in 1..Len(s) : IsWordChar(s[i])
\* a name column's value as a token: a missing value is the empty token
Token(v) == IF v = NaN THEN <<>> ELSE v
\* s without the newline it may end with
ChompNewline(s) ==
  IF s # <<>> /\ s[Len(s)] = NL THEN SubSeq(s, 1, Len(s) - 1) ELSE s

\* C7, as claimed: for a user name with a dot, the first name is the text
\* before the first dot and the last name is all the text after the first dot.
SplitAtFirstDotOnly ==
  HasCol("last_name") =>
    \A i \in Rows :
      Dots(UserName(i)) # {} =>
        /\ Token(users["first_name"][i]) = BeforeFirstDot(UserName(i))
        /\ Token(users["last_name"][i]) = AfterFirstDot(UserName(i))

\* C7, amended: the first name is the text before the first dot and the last
\* name is the text after the LAST dot (a newline that ends the user name
\* aside), each only when it is a non-empty run of word characters and
\* missing otherwise; for "a.b.c" the names are "a" and "c", so the password
\* "c" uses the name and "b.c" does not.
SplitAtFirstAndLastDot ==
  HasCol("uses_name") =>
    \A i \in Rows :
      LET u == UserName(i) IN
      /\ Dots(u) # {} =>
           /\ users["first_name"][i] =
                IF BeforeFirstDot(u) # <<>> /\ AllWordChars(BeforeFirstDot(u))
                THEN BeforeFirstDot(u) ELSE NaN
           /\ LET t == ChompNewline(AfterLastDot(u))
              IN  users["last_name"][i] =
                    IF t # <<>> /\ AllWordChars(t) THEN t ELSE NaN
      /\ u = <<"a", ".", "b", ".", "c">> =>
           /\ Password(i) = <<"c">> => users["uses_name"][i] = TRUE
           /\ Password(i) = <<"b", ".", "c">> => users["uses_name"][i] = FALSE

\* the user name "a.b.c" with the password "c": the last name is "c" and the
\* password uses it
SplitAtFirstAndLastDotWitness ==
  /\ HasCol("uses_name")
  /\ \E i \in Rows :
       /\ UserName(i) = <<"a", ".", "b", ".", "c">>
       /\ Password(i) = <<"c">>
       /\ users["first_name"][i] = <<"a">>
       /\ users["last_name"][i] = <<"c">>
       /\ users["uses_name"][i]

\* C8: a user name without a dot gives a missing first name and a missing
\* last name and uses_name false whatever the password, and the row still
\* gets its four other flags and its bad_password as booleans.
NoDotNeverMatches ==
  \A i \in Rows :
    Dots(UserName(i)) = {} =>
      /\ HasCol("uses_name") =>
           /\ users["first_name"][i] = NaN
           /\ users["last_name"][i] = NaN
           /\ users["uses_name"][i] = FALSE
      /\ HasCol("bad_password") =>
           /\ \A c \in FlagColumns : users[c][i] \in BOOLEAN
           /\ users["bad_password"][i] =
                (\E c \in FlagColumns \ {"uses_name"} : users[c][i])

\* the user name "ab" with the password "ab", after the whole pass: the
\* password is the whole user name, uses_name is false, the row is bad for
\* other reasons
NoDotNeverMatchesWitness ==
  /\ HasCol("bad_password")
  /\ \E i \in Rows :
       /\ UserName(i) = <<"a", "b">>
       /\ Password(i) = <<"a", "b">>
       /\ ~users["uses_name"][i]
       /\ users["too_short"][i]
       /\ users["bad_password"][i]

\* "passwords with >= 4 repeats"
repetition_threshold == 4

\* the scan of a string from position i with the current run being `run`
\* characters long: true as soon as a run reaches threshold
RECURSIVE RunScan(_, _, _, _)
RunScan(s, i, run, threshold) ==
  IF run >= threshold THEN TRUE
  ELSE IF i > Len(s) THEN FALSE
  ELSE RunScan(s, i + 1, IF i > 1 /\ s[i] = s[i - 1] THEN run + 1 ELSE 1, threshold)
hasExcessRun(s, threshold) == RunScan(s, 1, 0, threshold)

\* C9, as claimed: too_many_repeats is true exactly when the password holds
\* a run of at least 4 identical characters in a row, whatever the character.
RepeatsIffRunOfFour ==
  HasCol("too_many_repeats") =>
    \A i \in Rows :
      users["too_many_repeats"][i] = hasExcessRun(Password(i), repetition_threshold)

\* Apart from runs of newlines, which the . of the pattern does not match,
\* the flag is the run of four: the divergence of C9 is the newline alone.
RepeatsIffRunOfFourWithoutNewline ==
  HasCol("too_many_repeats") =>
    \A i \in Rows :
      (\A j \in 1..Len(Password(i)) : Password(i)[j] # NL) =>
        users["too_many_repeats"][i] = hasExcessRun(Password(i), repetition_threshold)

\* For names written without capitals the comparison of C6 is the one the
\* notebook makes: the divergence of C6 is the capitals of the user name alone.
UsesNameCaseInsensitiveForLowercaseNames ==
  HasCol("uses_name") =>
    \A i \in Rows :
      UserName(i) = str_lower(UserName(i)) =>
        users["uses_name"][i] =
          (\/ /\ users["first_name"][i] # NaN
              /\ str_lower(Password(i)) = str_lower(users["first_name"][i])
           \/ /\ users["last_name"][i] # NaN
              /\ str_lower(Password(i)) = str_lower(users["last_name"][i]))

\* C11: no rule waits for or skips on another: whichever flag columns
\* exist, each holds a boolean for every row of the table, whatever the row's
\* other flags are; and bad_password exists only when all five flag columns
\* do.
EveryRuleFlagsEveryRow ==
  /\ \A c \in {"too_short", "common_password", "common_word", "uses_name",
               "too_many_repeats", "bad_password"} :
       HasCol(c) =>
         /\ DOMAIN users[c] = Rows
         /\ \A i \in Rows : users[c][i] \in BOOLEAN
  /\ HasCol("bad_password") =>
       {"too_short", "common_password", "common_word", "uses_name",
        "too_many_repeats"} \subseteq DOMAIN users

\* after the whole pass, a row that is too short, in the list of common
\* passwords and a common word still has its name and repetition flags
EveryRuleFlagsEveryRowWitness ==
  /\ HasCol("bad_password")
  /\ \E i \in Rows :
       /\ users["too_short"][i]
       /\ users["common_password"][i]
       /\ users["common_word"][i]
       /\ users["uses_name"][i] = FALSE
       /\ users["too_many_repeats"][i] = FALSE
       /\ users["bad_password"][i]

\* C12: the table keeps the order of users.csv: every column has one value
\* per line of the file, row i carries the user name and the password of
\* line i, and every flag of row i is the flag of the credential of line i.
OutputOrderIsInputOrder ==
  LET csv == datasets.users_csv
      N == Len(csv)
      Id(i) == csv[i][1]
      Secret(i) == csv[i][2]
  IN  /\ \A c \in DOMAIN users : DOMAIN users[c] = 1..N
      /\ \A i \in 1..N :
           /\ users["user_name"][i] = Id(i)
           /\ users["password"][i] = Secret(i)
           /\ HasCol("too_short") =>
                users["too_short"][i] = too_short(str_len(Secret(i)))
           /\ HasCol("common_password") =>
                users["common_password"][i] =
                  common_password(Secret(i), read_csv(datasets.passwords_txt))
           /\ HasCol("common_word") =>
                users["common_word"][i] =
                  common_word(Secret(i), read_csv(datasets.words_txt))
           /\ HasCol("uses_name") =>
                users["uses_name"][i] =
                  uses_name(Secret(i), extract_first_name(Id(i)),
                            extract_last_name(Id(i)))
           /\ HasCol("too_many_repeats") =>
                users["too_many_repeats"][i] = too_many_repeats(Secret(i))
           /\ HasCol("bad_password") =>
                users["bad_password"][i] =
                  (\/ too_short(str_len(Secret(i)))
                   \/ common_password(Secret(i), read_csv(datasets.passwords_txt))
                   \/ common_word(Secret(i), read_csv(datasets.words_txt))
                   \/ uses_name(Secret(i), extract_first_name(Id(i)),
                                extract_last_name(Id(i)))
                   \/ too_many_repeats(Secret(i)))

\* after the whole pass over a file of two different credentials, the first
\* bad for its repetition alone and the second not bad
OutputOrderIsInputOrderWitness ==
  /\ HasCol("bad_password")
  /\ NRows = 2
  /\ UserName(1) # UserName(2)
  /\ Password(1) # Password(2)
  /\ users["too_many_repeats"][1] /\ ~users["too_short"][1]
  /\ users["bad_password"][1]
  /\ ~users["bad_password"][2]

CountTrue(c) == Cardinality({ i \in Rows : users[c][i] = TRUE })
Printed(key) == key \in DOMAIN stdout

\* C13: every printed count is the number of rows that have that flag, the
\* printed rows of the repetition rule are exactly the rows that have it, the
\* printed count of bad passwords is the number of rows with bad_password and
\* is at most the number of rows; a table without rows gives zeros.
SummaryCountsFlags ==
  /\ stdout["len(users)"] = Len(datasets.users_csv)
  /\ \A c \in {"too_short", "common_password", "common_word", "uses_name",
               "bad_password"} :
       LET name == CASE c = "too_short" -> "sum(too_short)"
                     [] c = "common_password" -> "sum(common_password)"
                     [] c = "common_word" -> "sum(common_word)"
                     [] c = "uses_name" -> "sum(uses_name)"
                     [] c = "bad_password" -> "sum(bad_password)"
       IN  /\ Printed(name) <=> HasCol(c)
           /\ Printed(name) =>
                /\ stdout[name] = CountTrue(c)
                /\ stdout[name] <= stdout["len(users)"]
                /\ NRows = 0 => stdout[name] = 0
  /\ Printed("users[too_many_repeats]") <=> HasCol("too_many_repeats")
  /\ Printed("users[too_many_repeats]") =>
       LET rows == stdout["users[too_many_repeats]"]
       IN  /\ Len(rows) = CountTrue("too_many_repeats")
           /\ { rows[k] : k \in 1..Len(rows) } =
                { i \in Rows : users["too_many_repeats"][i] = TRUE }

\* after the whole pass over two rows, one of them bad: the count of bad
\* passwords is 1, below the number of rows, and one row is too short
SummaryCountsFlagsWitness ==
  /\ HasCol("bad_password")
  /\ stdout["len(users)"] = 2
  /\ stdout["sum(bad_password)"] = 1
  /\ stdout["sum(too_short)"] = 1
  /\ stdout["sum(uses_name)"] = 0

\* the whole pass over a table without rows: every count is zero
SummaryCountsFlagsEmptyTable ==
  /\ HasCol("bad_password")
  /\ NRows = 0
  /\ stdout["sum(bad_password)"] = 0
  /\ stdout["users[too_many_repeats]"] = <<>>

VerdictColumns == FlagColumns \cup {"bad_password"}
PassComplete == HasCol("bad_password")

\* C14: once the whole pass has run, running any cell again, in any order and
\* any number of times, gives every row the flags and the bad_password it
\* already has, rereads the same two lists and prints the same counts.
SecondPassSameVerdicts ==
  [][PassComplete =>
       /\ \A c \in VerdictColumns : users'[c] = users[c]
       /\ DOMAIN users' = DOMAIN users
       /\ common_passwords' = common_passwords
       /\ words' = words
       /\ stdout' = stdout]_vars

\* the whole pass has run over a credential whose password is the first name
\* of its user name and is on neither list: the row has uses_name and is bad,
\* and every cell can be run again from here
SecondPassSameVerdictsWitness ==
  /\ PassComplete
  /\ {"common_passwords", "words"} \subseteq kernel
  /\ \E i \in Rows :
       /\ users["first_name"][i] # NaN
       /\ str_lower(Password(i)) = users["first_name"][i]
       /\ users["uses_name"][i]
       /\ ~users["common_password"][i]
       /\ ~users["common_word"][i]
       /\ ~users["too_many_repeats"][i]
       /\ users["bad_password"][i]

\* the flags and bad_password of one credential evaluated on its own
Verdict(cred) ==
  LET id == cred[1]
      secret == cred[2]
      flags == [too_short |-> too_short(str_len(secret)),
                common_password |->
                  common_password(secret, read_csv(datasets.passwords_txt)),
                common_word |-> common_word(secret, read_csv(datasets.words_txt)),
                uses_name |-> uses_name(secret, extract_first_name(id),
                                        extract_last_name(id)),
                too_many_repeats |-> too_many_repeats(secret)]
  IN  [c \in VerdictColumns |->
         IF c = "bad_password" THEN \E f \in FlagColumns : flags[f] ELSE flags[c]]

\* a sequential pass over a table of credentials
EvaluateAll(creds) == [i \in 1..Len(creds) |-> Verdict(creds[i])]

Rank(i, S) == Cardinality({ j \in S : j <= i })
SubTable(csv, S) ==
  [k \in 1..Cardinality(S) |-> csv[CHOOSE i \in S : Rank(i, S) = k]]

\* the rows in S evaluated by one worker, the others by a second worker, and
\* each verdict put back at the position its credential has in the file
MergeByInputOrder(csv, S) ==
  LET others == (1..Len(csv)) \ S
      mine == EvaluateAll(SubTable(csv, S))
      theirs == EvaluateAll(SubTable(csv, others))
  IN  [i \in 1..Len(csv) |->
         IF i \in S THEN mine[Rank(i, S)] ELSE theirs[Rank(i, others)]]

\* C15: the flags and bad_password of a row are those of its credential
\* evaluated without the other rows: for every way to give the rows to two
\* workers, the verdicts put back in file order are the columns of the table,
\* and replacing any other row by any other credential gives the row the
\* same verdict.
VerdictIndependentOfOtherRows ==
  LET csv == datasets.users_csv
      N == Len(csv)
      shown == VerdictColumns \cap DOMAIN users
  IN  /\ \A S \in SUBSET (1..N) :
           \A i \in 1..N : \A c \in shown :
             users[c][i] = MergeByInputOrder(csv, S)[i][c]
      /\ \A i \in 1..N : \A j \in (1..N) \ {i} : \A r \in Credentials :
           \A c \in shown :
             users[c][i] = EvaluateAll([csv EXCEPT ![j] = r])[i][c]

\* the whole pass over a table holding the same credential twice, on neither
\* list: no row gets a flag from the other one
VerdictIndependentOfOtherRowsWitness ==
  /\ PassComplete
  /\ NRows = 2
  /\ UserName(1) = UserName(2)
  /\ Password(1) = Password(2)
  /\ ~users["common_password"][1]
  /\ ~users["common_password"][2]
  /\ ~users["bad_password"][1]

\* C16: whichever of the other flags are there already when a cell writes
\* its flag, the flag it writes for a row is the one the rule gives for the
\* row's user_name and password, and the step changes no other flag; when
\* bad_password is written it is the OR of these five values.
FlagsInAnyOrder ==
  [][\A c \in VerdictColumns :
       (c \in DOMAIN users' /\ c \notin DOMAIN users) =>
         /\ \A i \in Rows : users'[c][i] = Verdict(datasets.users_csv[i])[c]
         /\ \A d \in (FlagColumns \cap DOMAIN users) \ {c} : users'[d] = users[d]
         /\ (FlagColumns \cap DOMAIN users') = (FlagColumns \cap DOMAIN users) \cup
              (IF c = "bad_password" THEN {} ELSE {c})]_vars

\* the cells have run in another order than the notebook's: the repetition
\* flag and the name flag are there before the length flag and the
\* common_password flag, for a row that is shorter than 8 and has four repeats
FlagsInAnyOrderWitness ==
  /\ HasCol("too_many_repeats")
  /\ HasCol("uses_name")
  /\ ~HasCol("too_short")
  /\ ~HasCol("common_password")
  /\ \E i \in Rows :
       /\ str_len(Password(i)) < min_length
       /\ users["too_many_repeats"][i]

\* C17: no step changes the files, the user_name and password columns, a
\* list that has been read, or the values of a flag column or of bad_password
\* that is already there; no step removes a column.
StepsLeaveInputsAndFlags ==
  [][/\ datasets' = datasets
     /\ users'["user_name"] = users["user_name"]
     /\ users'["password"] = users["password"]
     /\ "common_passwords" \in kernel => common_passwords' = common_passwords
     /\ "words" \in kernel => words' = words
     /\ DOMAIN users \subseteq DOMAIN users'
     /\ kernel \subseteq kernel'
     /\ \A c \in VerdictColumns \cap DOMAIN users : users'[c] = users[c]]_vars

\* the whole pass over a password with a capital letter that is a common word
\* once lowercased: the row has common_word, the password column still holds
\* the password as the file has it, and the lists are those of the files
StepsLeaveInputsAndFlagsWitness ==
  /\ PassComplete
  /\ \E i \in Rows :
       /\ Password(i) # str_lower(Password(i))
       /\ Password(i) = datasets.users_csv[i][2]
       /\ users["common_word"][i]
       /\ ~users["common_password"][i]
  /\ words = read_csv(datasets.words_txt)
  /\ common_passwords = read_csv(datasets.passwords_txt)

====
